---------------------------- MODULE Spec2Model ----------------------------
(***************************************************************************)
(* A model of src/services/excelService.ts: parseExcelFile reads a         *)
(* spreadsheet file, decodes its first sheet into a grid of raw cells      *)
(* (jsonData), locates the header row and the name column, and walks the   *)
(* columns of every data row to build one Student record per named row.    *)
(*                                                                         *)
(* Conventions.                                                            *)
(*  - Indices (i, c, headerIndex, nameIndex) are the code's 0-based        *)
(*    indices; At(seq, k) reads JavaScript's seq[k].                       *)
(*  - A cell is a record [t, s, v]: t is the JavaScript type ("undef" a    *)
(*    hole or undefined, "null", "str", "num", "bool"), s the text of a    *)
(*    string, v the value of a number counted in HALVES (v = 15 is 7.5)    *)
(*    or 0/1 for a boolean.  Halves are exact in binary floating point,    *)
(*    so the code's double arithmetic on them is the arithmetic here.      *)
(*  - Text is a TLA+ string; the regular expressions of the source are     *)
(*    operators that scan it character by character.                      *)
(***************************************************************************)
EXTENDS Integers, Sequences, FiniteSets, TLC

(***************************************************************************)
(* Cells                                                                   *)
(***************************************************************************)
Undef == [t |-> "undef", s |-> "", v |-> 0]
Null == [t |-> "null", s |-> "", v |-> 0]
Str(x) == [t |-> "str", s |-> x, v |-> 0]
Num(h) == [t |-> "num", s |-> "", v |-> h]
Bool(b) == [t |-> "bool", s |-> "", v |-> IF b THEN 1 ELSE 0]

\* seq[k] of JavaScript: undefined outside the array (and for a hole).
At(seq, k) == IF k + 1 \in DOMAIN seq THEN seq[k + 1] ELSE Undef

\* JavaScript truthiness (ToBoolean) of a cell.
Truthy(cell) ==
    CASE cell.t = "str" -> cell.s # ""
      [] cell.t = "num" -> cell.v # 0
      [] cell.t = "bool" -> cell.v = 1
      [] OTHER -> FALSE

\* cellVal === undefined || cellVal === null || cellVal === ''
IsBlank(cell) ==
    cell.t = "undef" \/ cell.t = "null" \/ (cell.t = "str" /\ cell.s = "")

(***************************************************************************)
(* Characters and strings                                                  *)
(***************************************************************************)
\* s.charAt(k - 1): the empty string outside s.
Ch(s, k) == IF k \in 1..Len(s) THEN SubSeq(s, k, k) ELSE ""

Digits == "0123456789"
UpperAlpha == "ABCDEFGHIJKLMNOPQRSTUVWXYZ"
LowerAlpha == "abcdefghijklmnopqrstuvwxyz"

\* The position of the character ch in alphabet, 0 when it is not there.
IndexIn(alphabet, ch) ==
    IF \E k \in 1..Len(alphabet) : Ch(alphabet, k) = ch
    THEN CHOOSE k \in 1..Len(alphabet) : Ch(alphabet, k) = ch
    ELSE 0

CharsOf(alphabet) == { Ch(alphabet, k) : k \in 1..Len(alphabet) }
DigitChars == CharsOf(Digits)
UpperChars == CharsOf(UpperAlpha)
LowerChars == CharsOf(LowerAlpha)
DigitTable == [ch \in DigitChars |-> IndexIn(Digits, ch) - 1]
LowerTable == [ch \in UpperChars |-> Ch(LowerAlpha, IndexIn(UpperAlpha, ch))]
UpperTable == [ch \in LowerChars |-> Ch(UpperAlpha, IndexIn(LowerAlpha, ch))]

IsDigit(ch) == ch \in DigitChars
IsLowerAlnum(ch) == ch \in LowerChars \/ ch \in DigitChars
\* \s of a regular expression, and the white space trim() and parseFloat strip.
IsSpace(ch) == ch \in {" ", "\t", "\n", "\r", "\f"}

LowerCh(ch) == IF ch \in UpperChars THEN LowerTable[ch] ELSE ch

RECURSIVE LowerFrom(_, _)
LowerFrom(s, k) ==
    IF k > Len(s) THEN "" ELSE LowerCh(Ch(s, k)) \o LowerFrom(s, k + 1)

\* String.prototype.toLowerCase (ASCII).
ToLowerCase(s) == LowerFrom(s, 1)

\* String.prototype.trim.
Trim(s) ==
    IF \A k \in 1..Len(s) : IsSpace(Ch(s, k)) THEN ""
    ELSE LET a == CHOOSE k \in 1..Len(s) :
                      ~IsSpace(Ch(s, k)) /\ \A j \in 1..(k - 1) : IsSpace(Ch(s, j))
             b == CHOOSE k \in 1..Len(s) :
                      ~IsSpace(Ch(s, k)) /\ \A j \in (k + 1)..Len(s) : IsSpace(Ch(s, j))
         IN  SubSeq(s, a, b)

\* sub occurs in s starting at position k.
OccursAt(s, sub, k) ==
    /\ k >= 1
    /\ k + Len(sub) - 1 <= Len(s)
    /\ (sub = "" \/ SubSeq(s, k, k + Len(sub) - 1) = sub)

\* String.prototype.includes.
Includes(s, sub) == \E k \in 1..(Len(s) - Len(sub) + 1) : OccursAt(s, sub, k)

\* The regular expression /x.*y/ for literal x and y: x, then any characters
\* but a line terminator, then y.
MatchesThen(s, x, y) ==
    \E a \in 1..(Len(s) - Len(x) - Len(y) + 1) :
        /\ OccursAt(s, x, a)
        /\ \E b \in (a + Len(x))..(Len(s) - Len(y) + 1) :
              /\ OccursAt(s, y, b)
              /\ \A k \in (a + Len(x))..(b - 1) : Ch(s, k) \notin {"\n", "\r"}

\* The strings behavio?u?r matches.
BehaviourForms == {"behaviour", "behavior", "behaviur", "behavir"}

(***************************************************************************)
(* Numbers and their text                                                  *)
(***************************************************************************)
\* Number::toString of a value counted in halves.
NumToString(h) ==
    LET a == IF h < 0 THEN -h ELSE h
        body == IF a % 2 = 0 THEN ToString(a \div 2)
                ELSE ToString(a \div 2) \o ".5"
    IN  IF h < 0 THEN "-" \o body ELSE body

\* String(cellVal), and the text `${cellVal}` puts in a template.
String(cell) ==
    CASE cell.t = "str" -> cell.s
      [] cell.t = "num" -> NumToString(cell.v)
      [] cell.t = "bool" -> IF cell.v = 1 THEN "true" ELSE "false"
      [] cell.t = "null" -> "null"
      [] OTHER -> "undefined"

NaN == [nan |-> TRUE, v |-> 0]
Val(h) == [nan |-> FALSE, v |-> h]

\* The value of a run of decimal digits s[a..b] (0 for the empty run).
RECURSIVE DigitsValue(_, _, _)
DigitsValue(s, a, b) ==
    IF b < a THEN 0
    ELSE 10 * DigitsValue(s, a, b - 1) + DigitTable[Ch(s, b)]

RECURSIVE Pow10(_)
Pow10(k) == IF k = 0 THEN 1 ELSE 10 * Pow10(k - 1)

\* The end of the longest run of digits of s that starts at position a
\* (a - 1 when s has no digit at a).
DigitsEnd(s, a) ==
    CHOOSE b \in (a - 1)..Len(s) :
        /\ \A k \in a..b : IsDigit(Ch(s, k))
        /\ (b = Len(s) \/ ~IsDigit(Ch(s, b + 1)))

\* parseFloat of a string: leading white space is skipped, then the longest
\* prefix  [+-] digits [. digits]  with at least one digit is read; NaN when
\* there is none.  The result is counted in halves: the texts of this model
\* have fractions .0 or .5 only, no exponent and no "Infinity".
ParseFloatStr(s) ==
    LET start == IF \E k \in 1..Len(s) : ~IsSpace(Ch(s, k))
                 THEN CHOOSE k \in 1..Len(s) :
                          ~IsSpace(Ch(s, k)) /\ \A j \in 1..(k - 1) : IsSpace(Ch(s, j))
                 ELSE Len(s) + 1
        neg == Ch(s, start) = "-"
        a == IF Ch(s, start) \in {"-", "+"} THEN start + 1 ELSE start
        ie == DigitsEnd(s, a)
        hasDot == Ch(s, ie + 1) = "."
        fe == IF hasDot THEN DigitsEnd(s, ie + 2) ELSE ie
        nInt == ie - a + 1
        nFrac == IF hasDot THEN fe - ie - 1 ELSE 0
        halves == 2 * DigitsValue(s, a, ie)
                    + (2 * DigitsValue(s, ie + 2, fe)) \div Pow10(nFrac)
    IN  IF nInt + nFrac = 0 THEN NaN
        ELSE Val(IF neg THEN -halves ELSE halves)

\* parseFloat(cellVal): the argument is converted to a string first.
ParseFloat(cell) == ParseFloatStr(String(cell))

\* Mutant: Math.floor in place of Math.round.
MathRoundDiv_Floor(sum, count) == sum \div (2 * count)

\* Math.round of sum / count, for sum in halves: floor(x + 0.5).
MathRoundDiv(sum, count) == (sum + count) \div (2 * count)

(***************************************************************************)
(* The regular expressions of the column walk.  Each is applied by the     *)
(* code to headerLower, a lower-cased label, with the flag i.              *)
(***************************************************************************)
\* /name|student/i on a cell of a candidate header row; the same set of
\* strings as /student\s*name|name|student/i on a header label.
IsNameLike(s) ==
    LET lower == ToLowerCase(s)
    IN  Includes(lower, "name") \/ Includes(lower, "student")

\* /classroom.*behavio?u?r|behavio?u?r.*classroom/i
IsClassroomBehaviour(h) ==
    \E f \in BehaviourForms : MatchesThen(h, "classroom", f) \/ MatchesThen(h, f, "classroom")

\* /learning.*attitude|attitude.*learning/i
IsLearningAttitude(h) ==
    MatchesThen(h, "learning", "attitude") \/ MatchesThen(h, "attitude", "learning")

\* /submission.*quality|quality.*submission/i
IsSubmissionQuality(h) ==
    MatchesThen(h, "submission", "quality") \/ MatchesThen(h, "quality", "submission")

\* /submission.*punctuality|punctuality.*submission/i
IsSubmissionPunctuality(h) ==
    MatchesThen(h, "submission", "punctuality") \/ MatchesThen(h, "punctuality", "submission")

\* /^progress$/i
IsProgress(h) == h = "progress"

\* /personal.*note|note.*personal/i
IsPersonalNote(h) ==
    MatchesThen(h, "personal", "note") \/ MatchesThen(h, "note", "personal")

\* The fixed field whose pattern h matches first, in the order the code
\* tests them; "" when none does.
FixedFields ==
    <<"classroomBehaviour", "learningAttitude", "submissionQuality",
      "submissionPunctuality", "progress", "personalNote">>

FixedField(h) ==
    CASE IsClassroomBehaviour(h) -> "classroomBehaviour"
      [] IsLearningAttitude(h) -> "learningAttitude"
      [] IsSubmissionQuality(h) -> "submissionQuality"
      [] IsSubmissionPunctuality(h) -> "submissionPunctuality"
      [] IsProgress(h) -> "progress"
      [] IsPersonalNote(h) -> "personalNote"
      [] OTHER -> ""

\* The label the context line of a fixed field starts with.
CanonicalLabel(f) ==
    CASE f = "classroomBehaviour" -> "Classroom Behaviour"
      [] f = "learningAttitude" -> "Learning Attitude"
      [] f = "submissionQuality" -> "Submission Quality"
      [] f = "submissionPunctuality" -> "Submission Punctuality"
      [] f = "progress" -> "Progress"
      [] OTHER -> "Personal Note"

\* The positions at which /^(?:criterion\s*)?([a-d])(?:\s*score)?$/i can
\* place its letter in h: position 1, or after "criterion" and white space;
\* the letter is followed by the end of h, or by white space and "score"
\* and the end of h.
CriterionLetterAt(h) ==
    { p \in 1..Len(h) :
        /\ \/ p = 1
           \/ /\ OccursAt(h, "criterion", 1)
              /\ p >= 10
              /\ \A k \in 10..(p - 1) : IsSpace(Ch(h, k))
        /\ Ch(h, p) \in {"a", "b", "c", "d"}
        /\ \/ p = Len(h)
           \/ /\ Len(h) - 4 > p
              /\ OccursAt(h, "score", Len(h) - 4)
              /\ \A k \in (p + 1)..(Len(h) - 5) : IsSpace(Ch(h, k)) }

\* criterionMatch !== null
IsCriterion(h) == CriterionLetterAt(h) # {}

\* criterionMatch[1].toUpperCase()
CriterionLetter(h) ==
    LET p == CHOOSE q \in CriterionLetterAt(h) : TRUE
    IN  UpperTable[Ch(h, p)]

\* /^[a-z0-9]{1,3}$/i on a lower-cased string.
IsShortAlnum(h) ==
    Len(h) \in 1..3 /\ \A k \in 1..Len(h) : IsLowerAlnum(Ch(h, k))

ScoreTerms == {"score", "grade", "mark", "criterion", "crit", "total", "sum"}

isScoreHeader(h) ==
    LET lower == ToLowerCase(h)
    IN  IF Includes(lower, "comment") THEN FALSE
        ELSE (\E t \in ScoreTerms : Includes(lower, t)) \/ IsShortAlnum(lower)

(***************************************************************************)
(* The column walk of one data row (lines 61-164)                          *)
(***************************************************************************)
\* The locals a row starts with (lines 62-74).
EmptyAcc ==
    [totalScore |-> 0, scoreCount |-> 0, contextParts |-> << >>,
     criteriaScores |-> << >>,
     classroomBehaviour |-> "", learningAttitude |-> "", submissionQuality |-> "",
     submissionPunctuality |-> "", progress |-> "", personalNote |-> "",
     processedAsComment |-> {}]

\* headers[k] || '': a label missing from the header row reads as empty.
LabelAt(hdrs, k) == IF k + 1 \in DOMAIN hdrs THEN hdrs[k + 1] ELSE ""

\* headers[c] || `Column ${c}`
HeaderOf(hdrs, c) ==
    IF LabelAt(hdrs, c) # "" THEN LabelAt(hdrs, c) ELSE "Column " \o ToString(c)

\* (headers[c + 1] || '').toLowerCase()
NextHeaderOf(hdrs, c) == ToLowerCase(LabelAt(hdrs, c + 1))

\* valNum <= 10 && valNum > 0, on halves (line 126).
CriterionInRange(v) == v <= 20 /\ v > 0

\* valNum >= 1 && valNum <= 10, on halves (line 154).
GenericInRange(v) == v >= 2 /\ v <= 20

\* The comment column of the criterion column c is column c + 1 (lines
\* 133-137): it is inside the row, its cell is truthy and its label
\* includes "comment" or the criterion's letter.
CommentFollows(hdrs, row, c, letter) ==
    /\ c + 1 < Len(row)
    /\ Truthy(At(row, c + 1))
    /\ \/ Includes(NextHeaderOf(hdrs, c), "comment")
       \/ Includes(NextHeaderOf(hdrs, c), ToLowerCase(letter))

\* Mutant: a field that is already set keeps its value.
SetField_FirstWins(acc, f, cellVal) ==
    [acc EXCEPT ![f] = IF @ = "" THEN String(cellVal) ELSE @,
                !.contextParts = Append(@, CanonicalLabel(f) \o ": " \o String(cellVal))]

\* A fixed-field column (lines 88-117): the field is assigned and a context
\* line is pushed.
SetField(acc, f, cellVal) ==
    [acc EXCEPT ![f] = String(cellVal),
                !.contextParts = Append(@, CanonicalLabel(f) \o ": " \o String(cellVal))]

\* Mutant: the entry is stored inside the range check of line 126.
PutCriterion_InRangeOnly(cs, letter, entry) ==
    IF CriterionInRange(entry.score)
    THEN [L \in DOMAIN cs \cup {letter} |-> IF L = letter THEN entry ELSE cs[L]]
    ELSE cs

\* criteriaScores[criterionLetter] = {score, comment}
PutCriterion(cs, letter, entry) ==
    [L \in DOMAIN cs \cup {letter} |-> IF L = letter THEN entry ELSE cs[L]]

\* Any other column (lines 150-163): a score under a score-like label, or
\* free text; a number that is neither is dropped.
GenericColumn(acc, row, c, header) ==
    LET cellVal == At(row, c)
        valNum == ParseFloat(cellVal)
        isNumeric == ~valNum.nan /\ cellVal.t # "bool"
    IN  IF isNumeric /\ isScoreHeader(header) /\ GenericInRange(valNum.v)
        THEN [acc EXCEPT
                !.totalScore = IF valNum.v > 0 THEN @ + valNum.v ELSE @,
                !.scoreCount = IF valNum.v > 0 THEN @ + 1 ELSE @,
                !.contextParts = Append(@, header \o ": " \o NumToString(valNum.v))]
        ELSE IF ~isNumeric /\ c \notin acc.processedAsComment
        THEN [acc EXCEPT !.contextParts = Append(@, header \o ": " \o String(cellVal))]
        ELSE acc

\* Mutant: a criterion cell that does not parse goes on to lines 150-163.
UnparsedCriterion_FallsThrough(acc, hdrs, row, c) ==
    GenericColumn(acc, row, c, HeaderOf(hdrs, c))

\* A criterion cell that does not parse (lines 125 and 146): nothing is
\* recorded, and the continue of line 146 ends the column.
UnparsedCriterionCell(acc, hdrs, row, c) == acc

\* A column whose label matches the criterion pattern (lines 121-147).
CriterionColumn(acc, hdrs, row, c, headerLower) ==
    LET letter == CriterionLetter(headerLower)
        valNum == ParseFloat(At(row, c))
        inRange == CriterionInRange(valNum.v)
        paired == CommentFollows(hdrs, row, c, letter)
        comment == IF paired THEN String(At(row, c + 1)) ELSE ""
    IN  IF valNum.nan THEN UnparsedCriterionCell(acc, hdrs, row, c)
        ELSE [acc EXCEPT
                !.totalScore = IF inRange THEN @ + valNum.v ELSE @,
                !.scoreCount = IF inRange THEN @ + 1 ELSE @,
                !.processedAsComment = IF paired THEN @ \cup {c + 1} ELSE @,
                !.criteriaScores =
                    PutCriterion(@, letter, [score |-> valNum.v, comment |-> comment]),
                !.contextParts =
                    Append(@, "Criterion " \o letter \o ": " \o NumToString(valNum.v)
                                \o (IF comment # "" THEN " - " \o comment ELSE ""))]

\* One iteration of the loop over the columns of a row (lines 76-164).
ColumnStep(acc, hdrs, nameIdx, row, c) ==
    LET header == HeaderOf(hdrs, c)
        headerLower == ToLowerCase(header)
        field == FixedField(headerLower)
    IN  IF c = nameIdx \/ c \in acc.processedAsComment \/ IsBlank(At(row, c)) THEN acc
        ELSE IF field # "" THEN SetField(acc, field, At(row, c))
        ELSE IF IsCriterion(headerLower) THEN CriterionColumn(acc, hdrs, row, c, headerLower)
        ELSE GenericColumn(acc, row, c, header)

\* contextParts.join('\n\n')
RECURSIVE Join(_)
Join(parts) ==
    IF parts = << >> THEN ""
    ELSE IF Len(parts) = 1 THEN parts[1]
    ELSE parts[1] \o "\n\n" \o Join(Tail(parts))

\* Math.round(totalScore / scoreCount), or 0 (line 166).
AvgScore(acc) ==
    IF acc.scoreCount > 0 THEN MathRoundDiv(acc.totalScore, acc.scoreCount) ELSE 0

\* The record students.push receives (lines 168-182).
StudentOf(id, nm, acc) ==
    [id |-> id, name |-> nm, score |-> AvgScore(acc),
     criteriaScores |-> acc.criteriaScores,
     classroomBehaviour |-> acc.classroomBehaviour,
     learningAttitude |-> acc.learningAttitude,
     submissionQuality |-> acc.submissionQuality,
     submissionPunctuality |-> acc.submissionPunctuality,
     progress |-> acc.progress,
     personalNote |-> acc.personalNote,
     originalComments |-> Join(acc.contextParts),
     generatedSummary |-> "", status |-> "idle"]

\* !row || row.length === 0, then !nameVal: the rows the loop skips
\* (lines 54-58).
SkipsRow(row, nameIdx) == Len(row) = 0 \/ ~Truthy(At(row, nameIdx))

\* row.some(cell => typeof cell === 'string' && /name|student/i.test(cell))
IsHeaderRow(row) ==
    \E k \in 1..Len(row) : row[k].t = "str" /\ IsNameLike(row[k].s)

\* jsonData[headerIndex].map(h => String(h || '').trim()): a hole stays a
\* hole, which every later use reads like the empty label.
HeadersOf(row) ==
    [k \in 1..Len(row) |-> IF Truthy(row[k]) THEN Trim(String(row[k])) ELSE ""]

\* headers.findIndex(h => /student\s*name|name|student/i.test(h)), with the
\* fallback to column 0 (lines 44-49).
NameIndexOf(hdrs) ==
    IF \E k \in 1..Len(hdrs) : IsNameLike(hdrs[k])
    THEN (CHOOSE k \in 1..Len(hdrs) :
              IsNameLike(hdrs[k]) /\ \A j \in 1..(k - 1) : ~IsNameLike(hdrs[j])) - 1
    ELSE 0

(***************************************************************************)
(* The state of parseExcelFile                                             *)
(***************************************************************************)
VARIABLES
    jsonData,     \* the grid the first sheet of the file decodes to
    decodes,      \* whether XLSX.read and sheet_to_json accept the file
    runsLeft,     \* the calls of parseExcelFile still to be made on the file
    pc,           \* where the current call is
    promises,     \* the promise of every call made, the current one last
    students,     \* the local students of the onload handler
    headerIndex, headers, nameIndex,
    i, c,         \* the loop variables of lines 27/52 and 76
    name, acc,    \* the locals of the current data row
    uuids         \* the number of identifiers crypto.randomUUID has issued

vars == <<jsonData, decodes, runsLeft, pc, promises, students, headerIndex,
          headers, nameIndex, i, c, name, acc, uuids>>

locals == <<students, headerIndex, headers, nameIndex, i, c, name, acc>>

\* The header search looks at the first ten rows only (line 27).
HeaderWindow == 10

Min(a, b) == IF a < b THEN a ELSE b

Pending == [state |-> "pending", value |-> << >>, error |-> "", calls |-> 0]

\* The calls of resolve and reject on the current promise: only the first
\* call settles it; calls counts them all.
Settle(ps, state, value, error) ==
    LET p == ps[Len(ps)]
    IN  [ps EXCEPT ![Len(ps)] =
            IF p.state = "pending"
            THEN [state |-> state, value |-> value, error |-> error,
                  calls |-> p.calls + 1]
            ELSE [p EXCEPT !.calls = @ + 1]]

\* resolve(students)
ResolveWith(ps, value) == Settle(ps, "fulfilled", value, "")

\* reject(error)
RejectWith(ps, error) == Settle(ps, "rejected", << >>, error)

\* Mutant: the row's index serves as the identifier.
RandomUUID_RowIndex == i

\* crypto.randomUUID(): a value never returned before.  Identifiers are
\* opaque, so the k-th one issued is written k.
RandomUUID == uuids + 1

\* Line 4-6 and 192: a call creates its promise and reader and starts the read.
Invoke ==
    /\ pc = "idle"
    /\ runsLeft > 0
    /\ runsLeft' = runsLeft - 1
    /\ promises' = Append(promises, Pending)
    /\ pc' = "reading"
    /\ students' = << >>
    /\ headerIndex' = -1
    /\ headers' = << >>
    /\ nameIndex' = -1
    /\ i' = 0
    /\ c' = 0
    /\ name' = ""
    /\ acc' = EmptyAcc
    /\ UNCHANGED <<jsonData, decodes, uuids>>

\* Line 191: the read fails.
OnError ==
    /\ pc = "reading"
    /\ promises' = RejectWith(promises, "read")
    /\ pc' = "idle"
    /\ UNCHANGED <<jsonData, decodes, runsLeft, locals, uuids>>

\* Lines 9-15 and 186-188: the read succeeds and decoding throws.
OnLoadThrows ==
    /\ pc = "reading"
    /\ ~decodes
    /\ promises' = RejectWith(promises, "decode")
    /\ pc' = "idle"
    /\ UNCHANGED <<jsonData, decodes, runsLeft, locals, uuids>>

\* Lines 9-26: the read succeeds and the sheet decodes; an empty grid
\* resolves at once.
OnLoad ==
    /\ pc = "reading"
    /\ decodes
    /\ students' = << >>
    /\ IF Len(jsonData) = 0
       THEN /\ promises' = ResolveWith(promises, << >>)
            /\ pc' = "idle"
            /\ UNCHANGED <<headerIndex, i>>
       ELSE /\ headerIndex' = -1
            /\ i' = 0
            /\ pc' = "findHeader"
            /\ UNCHANGED promises
    /\ UNCHANGED <<jsonData, decodes, runsLeft, headers, nameIndex, c, name, acc, uuids>>

\* Mutant: the search goes on after a match (no break).
FindHeader_NoBreak ==
    /\ pc = "findHeader"
    /\ i < Min(Len(jsonData), HeaderWindow)
    /\ headerIndex' = IF IsHeaderRow(At(jsonData, i)) THEN i ELSE headerIndex
    /\ i' = i + 1
    /\ UNCHANGED <<jsonData, decodes, runsLeft, pc, promises, students, headers,
                   nameIndex, c, name, acc, uuids>>

\* Lines 27-33: one iteration of the header search.
FindHeader ==
    /\ pc = "findHeader"
    /\ i < Min(Len(jsonData), HeaderWindow)
    /\ IF IsHeaderRow(At(jsonData, i))
       THEN headerIndex' = i /\ pc' = "selectName" /\ UNCHANGED i
       ELSE i' = i + 1 /\ UNCHANGED <<headerIndex, pc>>
    /\ UNCHANGED <<jsonData, decodes, runsLeft, promises, students, headers,
                   nameIndex, c, name, acc, uuids>>

\* Line 27: the header search ends without a match.
HeaderNotFound ==
    /\ pc = "findHeader"
    /\ ~(i < Min(Len(jsonData), HeaderWindow))
    /\ pc' = "selectName"
    /\ UNCHANGED <<jsonData, decodes, runsLeft, promises, locals, uuids>>

\* Lines 36-49: the fallback header row, the labels and the name column.
SelectName ==
    /\ pc = "selectName"
    /\ LET hi == IF headerIndex = -1 THEN 0 ELSE headerIndex
           hdrs == HeadersOf(At(jsonData, hi))
       IN  /\ headerIndex' = hi
           /\ headers' = hdrs
           /\ nameIndex' = NameIndexOf(hdrs)
           /\ i' = hi + 1
    /\ pc' = "rows"
    /\ UNCHANGED <<jsonData, decodes, runsLeft, promises, students, c, name, acc, uuids>>

\* Lines 52-74: the next data row is skipped, or its walk begins.
NextRow ==
    /\ pc = "rows"
    /\ i < Len(jsonData)
    /\ IF SkipsRow(At(jsonData, i), nameIndex)
       THEN i' = i + 1 /\ UNCHANGED <<pc, c, name, acc>>
       ELSE /\ name' = Trim(String(At(At(jsonData, i), nameIndex)))
            /\ acc' = EmptyAcc
            /\ c' = 0
            /\ pc' = "cols"
            /\ UNCHANGED i
    /\ UNCHANGED <<jsonData, decodes, runsLeft, promises, students, headerIndex,
                   headers, nameIndex, uuids>>

\* Lines 76-164: one column of the current row.
ProcessColumn ==
    /\ pc = "cols"
    /\ c < Len(At(jsonData, i))
    /\ acc' = ColumnStep(acc, headers, nameIndex, At(jsonData, i), c)
    /\ c' = c + 1
    /\ UNCHANGED <<jsonData, decodes, runsLeft, pc, promises, students, headerIndex,
                   headers, nameIndex, i, name, uuids>>

\* Mutant: resolve(students) is called inside the loop over the rows.
PushStudent_Resolves ==
    /\ pc = "cols"
    /\ ~(c < Len(At(jsonData, i)))
    /\ students' = Append(students, StudentOf(RandomUUID, name, acc))
    /\ promises' = ResolveWith(promises, students')
    /\ uuids' = uuids + 1
    /\ i' = i + 1
    /\ pc' = "rows"
    /\ UNCHANGED <<jsonData, decodes, runsLeft, headerIndex, headers,
                   nameIndex, c, name, acc>>

\* Lines 166-182: the row's record is pushed.
PushStudent ==
    /\ pc = "cols"
    /\ ~(c < Len(At(jsonData, i)))
    /\ students' = Append(students, StudentOf(RandomUUID, name, acc))
    /\ uuids' = uuids + 1
    /\ i' = i + 1
    /\ pc' = "rows"
    /\ UNCHANGED <<jsonData, decodes, runsLeft, promises, headerIndex, headers,
                   nameIndex, c, name, acc>>

\* Line 185: every row is done.
Resolve ==
    /\ pc = "rows"
    /\ ~(i < Len(jsonData))
    /\ promises' = ResolveWith(promises, students)
    /\ pc' = "idle"
    /\ UNCHANGED <<jsonData, decodes, runsLeft, locals, uuids>>

Next ==
    \/ Invoke
    \/ OnError
    \/ OnLoadThrows
    \/ OnLoad
    \/ FindHeader
    \/ HeaderNotFound
    \/ SelectName
    \/ NextRow
    \/ ProcessColumn
    \/ PushStudent
    \/ Resolve

(***************************************************************************)
(* Inputs.  A file is the grid its first sheet decodes to, or a file the   *)
(* decoder rejects.  Each specification draws the file from one family of  *)
(* grids and calls parseExcelFile on it a number of times.                 *)
(***************************************************************************)
MaxCols == 2            \* pool columns of a grid built from a pool of columns
MaxDataRows == 3        \* data rows of a grid of RowGrids
TallRows == 12          \* rows of a grid of TallGrids
MaxHeaderRows == 2      \* header-like rows of a grid of TallGrids
MaxRuns == 2            \* calls on the same file

InitWith(grids, runs) ==
    /\ \/ decodes = TRUE /\ jsonData \in grids
       \/ decodes = FALSE /\ jsonData = << >>
    /\ runsLeft = runs
    /\ pc = "idle"
    /\ promises = << >>
    /\ students = << >>
    /\ headerIndex = -1
    /\ headers = << >>
    /\ nameIndex = -1
    /\ i = 0
    /\ c = 0
    /\ name = ""
    /\ acc = EmptyAcc
    /\ uuids = 0

\* q with x inserted before its element at position p (after the last
\* element for p = Len(q) + 1).
InsertAt(q, p, x) == SubSeq(q, 1, p - 1) \o <<x>> \o SubSeq(q, p, Len(q))

\* The sequences of 0..MaxCols columns of a pool, each also with the column
\* nameCol inserted at every position.
ColumnSeqs(pool, nameCol) ==
    UNION { { f : f \in [1..n -> pool] } \cup
            { InsertAt(f, p, nameCol) : f \in [1..n -> pool], p \in 1..(n + 1) } :
            n \in 0..MaxCols }

\* A header row and one data row, made of <<label cell, data cell>> columns:
\* up to MaxCols columns of a pool and, in all grids but those that test the
\* fallback to column 0, a name column at some position.
ColumnGrids(pool, nameCol) ==
    { << [k \in 1..Len(q) |-> q[k][1]], [k \in 1..Len(q) |-> q[k][2]] >> :
        q \in ColumnSeqs(pool, nameCol) \ { << >> } }

\* Score columns: criteria (a number in range, out of range, text), comment
\* columns (text, the number 0, blank), generic scores in and out of range,
\* free text, a fixed field and a column without a label.
ScoreColumns ==
    { <<Str("A"), Num(14)>>,
      <<Str("A"), Str("abc")>>,
      <<Str("Criterion A"), Num(16)>>,
      <<Str("B Score"), Num(30)>>,
      <<Str("A Comment"), Str("Great job")>>,
      <<Str("A Comment"), Num(0)>>,
      <<Str("Comment"), Str("")>>,
      <<Str("Score"), Num(16)>>,
      <<Str("Score"), Str("7.5")>>,
      <<Str("Total"), Num(22)>>,
      <<Str("Mark"), Num(1)>>,
      <<Str("D"), Num(1)>>,
      <<Str("Notes"), Str("Late")>>,
      <<Str("Classroom Behaviour"), Str("Good")>>,
      <<Undef, Num(6)>> }

\* Fixed-field columns: two labels and two values for each of the six
\* fields, and a criterion column whose letter some of the labels include.
FieldColumns ==
    { <<Str("Classroom Behaviour"), Str("Good")>>,
      <<Str("behavior in classroom"), Str("Poor")>>,
      <<Str("Learning Attitude"), Str("Keen")>>,
      <<Str("Attitude to learning"), Str("Lazy")>>,
      <<Str("Submission Quality"), Str("High")>>,
      <<Str("Quality of submission"), Num(6)>>,
      <<Str("Submission Punctuality"), Str("Late")>>,
      <<Str("punctuality (submission)"), Str("On time")>>,
      <<Str("Progress"), Str("Steady")>>,
      <<Str(" PROGRESS "), Str("Slow")>>,
      <<Str("Personal Note"), Str("Kind")>>,
      <<Str("Notes - personal"), Str("Shy")>>,
      <<Str("C"), Num(14)>> }

\* Data rows under the header Name, A, A Comment: named rows, and rows whose
\* name cell is white space, empty, the number 0 or missing.
RowPool ==
    { <<Str("Ann"), Num(14), Str("Great job")>>,
      <<Str(" Bob "), Str("abc"), Str("Late")>>,
      <<Str("  "), Num(16)>>,
      <<Str(""), Num(14)>>,
      <<Num(0), Num(14)>>,
      <<Undef, Num(14)>>,
      << >> }

RECURSIVE SeqsUpTo(_, _)
SeqsUpTo(pool, n) ==
    IF n = 0 THEN { << >> }
    ELSE LET shorter == SeqsUpTo(pool, n - 1)
         IN  shorter \cup { Append(q, x) : q \in shorter, x \in pool }

\* The rows above the data: the header row alone, a title row and the
\* header row, or a header row with no name-like label (the header search
\* then falls back to row 0).
HeadRows ==
    { << <<Str("Name"), Str("A"), Str("A Comment")>> >>,
      << <<Str("Term 1")>>, <<Str("Name"), Str("A"), Str("A Comment")>> >>,
      << <<Str("Pupil"), Str("A"), Str("A Comment")>> >> }

\* The head rows and up to MaxDataRows data rows.
RowGrids ==
    { head \o rows : head \in HeadRows, rows \in SeqsUpTo(RowPool, MaxDataRows) }

\* Grids of 0..TallRows one-cell rows, at most MaxHeaderRows of them
\* header-like, at any position: inside and beyond the header window.
TallGrids ==
    UNION { { [k \in 1..n |-> IF k \in hs THEN <<Str("Student")>> ELSE <<Str("x")>>] :
                hs \in { h \in SUBSET (1..n) : Cardinality(h) <= MaxHeaderRows } } :
            n \in 0..TallRows }

\* Malformed data rows under the header Name, A, A Comment: a criterion
\* cell that is no number, a missing name, an empty row.
MalformedRows ==
    { <<Str(" Bob "), Str("abc"), Str("Late")>>,
      <<Undef, Num(14)>>,
      << >> }

\* The empty sheet, and the header row with up to MaxDataRows rows that are
\* malformed or well-formed.
SettleGrids ==
    { << >> } \cup
    { head \o rows :
        head \in { << <<Str("Name"), Str("A"), Str("A Comment")>> >>,
                   << <<Str("Pupil"), Str("A"), Str("A Comment")>> >> },
        rows \in SeqsUpTo(MalformedRows \cup {<<Str("Ann"), Num(14), Str("Great job")>>},
                          MaxDataRows) }

Init == InitWith(ColumnGrids(ScoreColumns, <<Str("Name"), Str("Ann")>>), 1)
InitSettle == InitWith(SettleGrids, 1)
InitFields == InitWith(ColumnGrids(FieldColumns, <<Str("Student Name"), Str("Ann")>>), 1)
InitRows == InitWith(RowGrids, MaxRuns)
InitTall == InitWith(TallGrids, 1)

Spec == Init /\ [][Next]_vars
SpecFields == InitFields /\ [][Next]_vars
SpecRows == InitRows /\ [][Next]_vars
SpecTall == InitTall /\ [][Next]_vars

(***************************************************************************)
(* What the properties below speak of                                      *)
(***************************************************************************)
\* The promise of the current call.
Cur == promises[Len(promises)]

\* The current call has resolved with its record list.
Fulfilled == promises # << >> /\ pc = "idle" /\ Cur.state = "fulfilled"

\* The header row and the name column are fixed.
Located == pc \in {"rows", "cols"} \/ (Fulfilled /\ Len(jsonData) > 0)

\* A blank cell as the specification defines it: absent, the empty
\* string, null or undefined.
BlankCell(cell) == cell.t \in {"undef", "null"} \/ cell = Str("")

\* A text cell with "name" or "student" in it, in any letter case.
HasNameText(row) ==
    \E k \in 1..Len(row) :
        /\ row[k].t = "str"
        /\ \E w \in {"name", "student"} : Includes(ToLowerCase(row[k].s), w)

\* The 0-based indices of the rows the header search looks at.
Window == 0..(Min(Len(jsonData), HeaderWindow) - 1)

\* The 0-based indices of the data rows: the rows after the header row.
DataRows == (headerIndex + 1)..(Len(jsonData) - 1)

\* The name cell of row r.
NameCell(r) == At(At(jsonData, r), nameIndex)

RECURSIVE Ascending(_)
\* The elements of a finite set of numbers, smallest first.
Ascending(S) ==
    IF S = {} THEN << >>
    ELSE LET m == CHOOSE x \in S : \A y \in S : x <= y
         IN  <<m>> \o Ascending(S \ {m})

(***************************************************************************)
(* C7: the header index is the smallest index below min(rowCount, 10) of   *)
(* a row with a text cell containing "name" or "student"; it is 0 when no  *)
(* row of that window has one, also when a later row has; and a grid with  *)
(* no rows resolves with no records and without a row being looked at.     *)
(***************************************************************************)
C7_HeaderIndex ==
    /\ Located =>
          IF \E r \in Window : HasNameText(At(jsonData, r))
          THEN /\ headerIndex \in Window
               /\ HasNameText(At(jsonData, headerIndex))
               /\ \A r \in 0..(headerIndex - 1) : ~HasNameText(At(jsonData, r))
          ELSE headerIndex = 0
    /\ (decodes /\ Len(jsonData) = 0) =>
          /\ pc \in {"idle", "reading"}
          /\ students = << >>
          /\ promises # << >> /\ Cur.state = "fulfilled" => Cur.value = << >>

\* A grid taller than the window whose only header-like rows lie beyond it:
\* the header index fell back to 0.
C7_Witness ==
    /\ pc = "rows"
    /\ Len(jsonData) > HeaderWindow
    /\ \A r \in Window : ~HasNameText(At(jsonData, r))
    /\ \E r \in HeaderWindow..(Len(jsonData) - 1) : HasNameText(At(jsonData, r))
    /\ headerIndex = 0

(***************************************************************************)
(* C1: the list a call resolves with holds exactly one record for every    *)
(* data row whose name cell is not blank, in the order of the rows, and    *)
(* none for any other row.                                                 *)
(***************************************************************************)
NamedRows == Ascending({ r \in DataRows : ~BlankCell(NameCell(r)) })

C1_RecordPerNamedRow ==
    (Fulfilled /\ Len(jsonData) > 0) =>
        /\ Len(Cur.value) = Len(NamedRows)
        /\ \A j \in 1..Len(NamedRows) :
              j <= Len(Cur.value) =>
                  Cur.value[j].name = Trim(String(NameCell(NamedRows[j])))

(***************************************************************************)
(* C2: every record has a name that is a trimmed string of length at       *)
(* least 1; a name cell of white space only yields no record.              *)
(***************************************************************************)
C2_NameNonEmpty ==
    \A j \in 1..Len(students) :
        /\ Len(students[j].name) >= 1
        /\ students[j].name = Trim(students[j].name)

(***************************************************************************)
(* The column walk, as the properties see it.  While a row is walked       *)
(* (pc = "cols") the locals acc describe the columns before c; once its    *)
(* record is pushed they describe the whole row, until the next row's walk *)
(* begins.                                                                 *)
(***************************************************************************)
Last(q) == q[Len(q)]

\* The locals acc belong to a row.
HasWalk == pc = "cols" \/ (Located /\ students # << >>)

\* The 0-based index of the row acc belongs to.
WalkIndex ==
    IF pc = "cols" THEN i
    ELSE CHOOSE r \in (headerIndex + 1)..(i - 1) :
             /\ ~SkipsRow(At(jsonData, r), nameIndex)
             /\ \A q \in (r + 1)..(i - 1) : SkipsRow(At(jsonData, q), nameIndex)

WalkRow == At(jsonData, WalkIndex)

\* The columns of that row the walk has passed.
Walked == IF pc = "cols" THEN 0..(c - 1) ELSE 0..(Len(WalkRow) - 1)

\* The lower-cased label of column k.
LabelOf(k) == ToLowerCase(HeaderOf(headers, k))

\* Column k is not blank, not consumed and not the name column.
Entered(k) ==
    k # nameIndex /\ k \notin acc.processedAsComment /\ ~BlankCell(At(WalkRow, k))

\* Column k is such a column, its label matches the criterion pattern and
\* its cell parses as a number.
CriterionCol(k) ==
    Entered(k) /\ IsCriterion(LabelOf(k)) /\ ~ParseFloat(At(WalkRow, k)).nan

\* Column k is such a column under a generic score label (no fixed field,
\* no criterion), and its cell is a number.
GenericScoreCol(k) ==
    /\ Entered(k)
    /\ ~ParseFloat(At(WalkRow, k)).nan
    /\ isScoreHeader(HeaderOf(headers, k))
    /\ ~IsCriterion(LabelOf(k))
    /\ FixedField(LabelOf(k)) = ""

\* The parsed value of the cell of column k, in halves.
ValueOf(k) == ParseFloat(At(WalkRow, k)).v

\* The sum of the values of the columns of S.
RECURSIVE SumValues(_)
SumValues(S) ==
    IF S = {} THEN 0
    ELSE LET x == CHOOSE y \in S : TRUE IN ValueOf(x) + SumValues(S \ {x})

\* The integer nearest to sum / (2 * count), a half going away from zero,
\* for sum >= 0 counted in halves.
RoundHalfAway(sum, count) ==
    CHOOSE n \in 0..(sum + 1) :
        2 * count * n - count <= sum /\ sum < 2 * count * n + count

(***************************************************************************)
(* C3: the score of every record is an integer in [0, 10]; it is 0 when    *)
(* the row aggregated no value and otherwise sum / count rounded half away *)
(* from zero, sum and count being taken over exactly the criterion cells   *)
(* with 0 < value <= 10 and the generic-score cells with 1 <= value <= 10. *)
(***************************************************************************)
Aggregated ==
    { k \in Walked :
        \/ CriterionCol(k) /\ 0 < ValueOf(k) /\ ValueOf(k) <= 20
        \/ GenericScoreCol(k) /\ 2 <= ValueOf(k) /\ ValueOf(k) <= 20 }

C3_Score ==
    /\ \A j \in 1..Len(students) : students[j].score \in 0..10
    /\ HasWalk =>
          /\ acc.totalScore = SumValues(Aggregated)
          /\ acc.scoreCount = Cardinality(Aggregated)
    /\ (HasWalk /\ pc # "cols") =>
          Last(students).score =
              IF Aggregated = {} THEN 0
              ELSE RoundHalfAway(SumValues(Aggregated), Cardinality(Aggregated))

\* A row with the values 7 and 8 aggregated: its record has the score 8.
C3_Witness ==
    /\ HasWalk /\ pc # "cols"
    /\ Cardinality(Aggregated) = 2
    /\ { ValueOf(k) : k \in Aggregated } = {14, 16}
    /\ Last(students).score = 8

(***************************************************************************)
(* C4: criteriaScores has an entry for the letter L exactly when the row   *)
(* has a column that is not blank, not consumed and not the name column,   *)
(* whose label matches the criterion pattern for L and whose cell parses   *)
(* as a number; the entry's score is the parsed value, also outside        *)
(* (0, 10], and a value outside (0, 10] adds nothing to sum and count.     *)
(***************************************************************************)
Letters == {"A", "B", "C", "D"}

CriterionColsOf(L) ==
    { k \in Walked : CriterionCol(k) /\ CriterionLetter(LabelOf(k)) = L }

OutOfRangeCriteria ==
    { k \in Walked : CriterionCol(k) /\ ~(0 < ValueOf(k) /\ ValueOf(k) <= 20) }

C4_CriteriaEntries ==
    /\ HasWalk =>
          /\ DOMAIN acc.criteriaScores = { L \in Letters : CriterionColsOf(L) # {} }
          /\ \A L \in DOMAIN acc.criteriaScores :
                \E k \in CriterionColsOf(L) :
                    /\ \A q \in CriterionColsOf(L) : q <= k
                    /\ acc.criteriaScores[L].score = ValueOf(k)
          /\ acc.totalScore = SumValues(Aggregated \ OutOfRangeCriteria)
          /\ acc.scoreCount = Cardinality(Aggregated \ OutOfRangeCriteria)
    /\ (HasWalk /\ pc # "cols") => Last(students).criteriaScores = acc.criteriaScores

\* A row with criterion A = 7 and criterion B = 15: both entries are in the
\* record, and its score is 7.
C4_Witness ==
    /\ HasWalk /\ pc # "cols"
    /\ DOMAIN Last(students).criteriaScores = {"A", "B"}
    /\ Last(students).criteriaScores["A"].score = 14
    /\ Last(students).criteriaScores["B"].score = 30
    /\ Last(students).score = 7

(***************************************************************************)
(* C5: when a criterion column c with a numeric cell is walked and column  *)
(* c + 1 is inside the row, has a cell that is not blank and a lower-cased *)
(* label that includes "comment" or the criterion's letter, the entry's    *)
(* comment is the text of cell c + 1 and column c + 1 is consumed: its own *)
(* step changes nothing.  Otherwise the comment is empty and column c + 1  *)
(* is not consumed.                                                        *)
(***************************************************************************)
\* The walk is about to take column c of row i.
AtColumn == pc = "cols" /\ c < Len(At(jsonData, i))

\* The pairing condition of column c, with the next cell required to be
\* not blank.
PairsWithNext ==
    /\ c + 1 < Len(WalkRow)
    /\ ~BlankCell(At(WalkRow, c + 1))
    /\ \/ Includes(ToLowerCase(LabelAt(headers, c + 1)), "comment")
       \/ Includes(ToLowerCase(LabelAt(headers, c + 1)),
                   ToLowerCase(CriterionLetter(LabelOf(c))))

C5_CommentPairing ==
    [][AtColumn =>
         /\ CriterionCol(c) =>
               LET entry == acc'.criteriaScores[CriterionLetter(LabelOf(c))]
               IN  IF PairsWithNext
                   THEN /\ entry.comment = String(At(WalkRow, c + 1))
                        /\ (c + 1) \in acc'.processedAsComment
                   ELSE /\ entry.comment = ""
                        /\ (c + 1) \notin acc'.processedAsComment
         /\ c \in acc.processedAsComment => acc' = acc]_vars

(***************************************************************************)
(* C10, as claimed: a column that is not blank, not consumed and not the   *)
(* name column, whose label matches the criterion pattern and whose cell   *)
(* does not parse as a number, records no criterion entry and appends the  *)
(* context line "<label>: <value>".                                        *)
(***************************************************************************)
AtUnparsedCriterion ==
    /\ AtColumn
    /\ Entered(c)
    /\ IsCriterion(LabelOf(c))
    /\ ParseFloat(At(WalkRow, c)).nan

C10_FallsThrough ==
    [][AtUnparsedCriterion =>
         /\ acc'.criteriaScores = acc.criteriaScores
         /\ acc'.contextParts =
               Append(acc.contextParts,
                      HeaderOf(headers, c) \o ": " \o String(At(WalkRow, c)))]_vars

(***************************************************************************)
(* C10, amended: such a column records no criterion entry and is dropped:  *)
(* it appends no context line and changes none of the row's locals.        *)
(***************************************************************************)
C10_Dropped == [][AtUnparsedCriterion => acc' = acc]_vars

\* The walk has just passed a criterion column whose cell does not parse.
C10_Witness ==
    /\ pc = "cols"
    /\ c > 0
    /\ (c - 1) # nameIndex
    /\ (c - 1) \notin acc.processedAsComment
    /\ IsCriterion(LabelOf(c - 1))
    /\ At(WalkRow, c - 1) = Str("abc")
    /\ acc.contextParts = << >>

(***************************************************************************)
(* C6, as claimed: each of the six fixed fields holds the text of the      *)
(* leftmost column of the row that is not blank, not consumed and not the  *)
(* name column and whose label matches the field's pattern, so that later  *)
(* matching columns do not change it; the empty string when none matches.  *)
(***************************************************************************)
\* The smallest and the largest element of a non-empty set of numbers.
Leftmost(S) == CHOOSE x \in S : \A y \in S : x <= y
Rightmost(S) == CHOOSE x \in S : \A y \in S : y <= x

FieldNames == { FixedFields[k] : k \in 1..Len(FixedFields) }

MatchingCols(f) == { k \in Walked : Entered(k) /\ FixedField(LabelOf(k)) = f }

C6_FirstMatchWins ==
    HasWalk =>
        \A f \in FieldNames :
            acc[f] = IF MatchingCols(f) = {} THEN ""
                     ELSE String(At(WalkRow, Leftmost(MatchingCols(f))))

(***************************************************************************)
(* C6, amended: each of the six fixed fields holds the text of the         *)
(* rightmost column of the row that is not blank, not consumed and not the *)
(* name column and whose label matches the field's pattern (every such     *)
(* column assigns the field), and the empty string when there is none;     *)
(* the record carries these values.                                        *)
(***************************************************************************)
FieldCols(f) == MatchingCols(f)

C6_LastMatchWins ==
    /\ HasWalk =>
          \A f \in FieldNames :
              acc[f] = IF FieldCols(f) = {} THEN ""
                       ELSE String(At(WalkRow, Rightmost(FieldCols(f))))
    /\ (HasWalk /\ pc # "cols") =>
          \A f \in FieldNames : Last(students)[f] = acc[f]

\* A record of a row with two columns for one field and different texts:
\* the field holds the later one.
C6_Witness ==
    /\ HasWalk /\ pc # "cols"
    /\ \E f \in FieldNames :
          /\ Cardinality(FieldCols(f)) >= 2
          /\ At(WalkRow, Leftmost(FieldCols(f))) # At(WalkRow, Rightmost(FieldCols(f)))
          /\ Last(students)[f] = String(At(WalkRow, Rightmost(FieldCols(f))))

(***************************************************************************)
(* C8: every call settles exactly once, with the complete record list or   *)
(* with a failure, never both.  A read or decode failure rejects and       *)
(* delivers no records; a call resolves only after every data row is       *)
(* processed; and in a grid that decoded no row causes a failure.  Under   *)
(* fair scheduling of the reader's events and of the handler every call    *)
(* made settles.                                                           *)
(***************************************************************************)
\* The rows of the grid that get a record.
RecordRows == { r \in DataRows : ~SkipsRow(At(jsonData, r), nameIndex) }

C8_Settled ==
    /\ \A k \in 1..Len(promises) :
          LET p == promises[k]
          IN  /\ p.calls <= 1
              /\ (p.state = "pending") <=> (p.calls = 0)
              /\ (k < Len(promises) \/ pc = "idle") => p.calls = 1
              /\ p.state = "rejected" =>
                    /\ p.value = << >>
                    /\ p.error \in {"read", "decode"}
                    /\ p.error = "decode" => ~decodes
              /\ p.state = "fulfilled" => decodes /\ p.error = ""
    /\ pc # "idle" => Cur.state = "pending"
    /\ (Fulfilled /\ Len(jsonData) > 0) =>
          /\ i = Len(jsonData)
          /\ Cur.value = students
          /\ Len(Cur.value) = Cardinality(RecordRows)
    /\ (Fulfilled /\ Len(jsonData) = 0) => Cur.value = << >>

C8_SettlesOnce ==
    /\ []C8_Settled
    /\ (pc # "idle") ~> (pc = "idle")

\* A call on a grid with an empty row, a row without a name and a row whose
\* criterion cell is text has resolved, with the record of the named row.
C8_Witness ==
    /\ Fulfilled
    /\ \E r \in DataRows : At(jsonData, r) = << >>
    /\ \E r \in DataRows : At(jsonData, r) # << >> /\ BlankCell(NameCell(r))
    /\ \E r \in DataRows : At(At(jsonData, r), 1) = Str("abc")
    /\ Len(Cur.value) = 1
    /\ Cur.calls = 1

\* The reader fires load or error for every read it started, and the
\* handler runs to its end.
SpecSettle == InitSettle /\ [][Next]_vars /\ WF_vars(Next)

(***************************************************************************)
(* C9: two calls on the same grid resolve with lists of equal length whose *)
(* records agree, position by position, in every field but id; a record    *)
(* depends on its own row only (and on the header row and name column);    *)
(* and all the identifiers of all the calls differ from one another.       *)
(***************************************************************************)
\* A record without its id.
NoId(r) == [f \in DOMAIN r \ {"id"} |-> r[f]]

\* The locals after a walk of the columns c, c + 1, ... of row that starts
\* from a.
RECURSIVE WalkFrom(_, _, _)
WalkFrom(a, row, k) ==
    IF k < Len(row) THEN WalkFrom(ColumnStep(a, headers, nameIndex, row, k), row, k + 1)
    ELSE a

\* The record of a row that is walked alone, with identifier 0.
RecordAlone(row) ==
    StudentOf(0, Trim(String(At(row, nameIndex))), WalkFrom(EmptyAcc, row, 0))

\* The rows whose records are pushed, in order.
PushedRows == Ascending({ r \in RecordRows : r < i })

\* The identifiers of the records the calls resolved with, as a sequence.
RECURSIVE IdsOf(_)
IdsOf(ps) ==
    IF ps = << >> THEN << >>
    ELSE [j \in 1..Len(Head(ps).value) |-> Head(ps).value[j].id] \o IdsOf(Tail(ps))

C9_Idempotent ==
    /\ \A a \in 1..Len(promises), b \in 1..Len(promises) :
          (a < b /\ promises[a].state = "fulfilled" /\ promises[b].state = "fulfilled") =>
              /\ Len(promises[a].value) = Len(promises[b].value)
              /\ \A j \in 1..Len(promises[a].value) :
                    NoId(promises[a].value[j]) = NoId(promises[b].value[j])
    /\ \A j \in 1..Len(IdsOf(promises)), k \in 1..Len(IdsOf(promises)) :
          j # k => IdsOf(promises)[j] # IdsOf(promises)[k]
    /\ Located =>
          /\ Len(students) = Len(PushedRows)
          /\ \A j \in 1..Len(students) :
                NoId(students[j]) = NoId(RecordAlone(At(jsonData, PushedRows[j])))

\* Two calls on a grid have both resolved, each with two records or more.
C9_Witness ==
    /\ Len(promises) >= 2
    /\ pc = "idle"
    /\ promises[1].state = "fulfilled" /\ promises[2].state = "fulfilled"
    /\ Len(promises[1].value) >= 2
    /\ Len(promises[2].value) >= 2

=============================================================================
